---- MODULE Spec2Model ----
(***************************************************************************)
(* vn-kanji-sheets: the two batch scripts under data/.                     *)
(*   auto-sv-lookup.py  load_dictionary, get_han_viet_reading,             *)
(*                      process_kanji_file  (the Enricher)                 *)
(*   split-kanji.py     split_kanji_by_jlpt_level  (the Splitter)          *)
(*                                                                         *)
(* Python strings are sequences of code points, so that strip(), upper(),  *)
(* lower(), sorted() and ", ".join() are computed rather than assumed.     *)
(* JSON values are tagged records [t, s]; a key that is missing from a     *)
(* JSON object is the value Absent.                                        *)
(***************************************************************************)
EXTENDS Integers, Sequences, FiniteSets, TLC

VARIABLES
    pc,              \* position of process_kanji_file / load_dictionary
    exit_status,     \* status of sys.exit, 0 while the process has not exited
    console,         \* the messages printed so far, in order
    yomichan_data,   \* load_dictionary: the parsed dictionary file
    entry_idx,       \* load_dictionary: index of the next entry of the loop
    hvd_dictionary,  \* the ReadingMap: character -> set of readings
    input_file,      \* content of KANJI_INPUT_FILE as read by this run
    data,            \* process_kanji_file: the parsed document
    kanji_list,      \* process_kanji_file: data.get('kanji', [])
    i,               \* process_kanji_file: index of the next record of the loop
    character,       \* process_kanji_file: loop local
    sv_meaning,      \* process_kanji_file: loop local, result of the lookup
    modified_count,
    skipped_count,
    output_file,     \* content of OUTPUT_FILE
    first_input,     \* input of the first run, once a second run was started
    split_pc,        \* position of split_kanji_by_jlpt_level
    split_data,      \* split_kanji_by_jlpt_level: the parsed document
    jlpt_groups,     \* split_kanji_by_jlpt_level: category key -> records
    k,               \* split_kanji_by_jlpt_level: index of the next record
    w,               \* split_kanji_by_jlpt_level: index of the next output file
    split_files,     \* content of the five output files, by category key
    split_console    \* the messages printed by the Splitter

vars == << pc, exit_status, console, yomichan_data, entry_idx, hvd_dictionary,
           input_file, data, kanji_list, i, character, sv_meaning,
           modified_count, skipped_count, output_file, first_input,
           split_pc, split_data, jlpt_groups, k, w, split_files, split_console >>

enricher_vars == << pc, exit_status, console, yomichan_data, entry_idx,
                    hvd_dictionary, input_file, data, kanji_list, i, character,
                    sv_meaning, modified_count, skipped_count, output_file,
                    first_input >>

splitter_vars == << split_pc, split_data, jlpt_groups, k, w, split_files,
                    split_console >>

(***************************************************************************)
(* Bounds of the model.                                                    *)
(***************************************************************************)
MaxEntries == 2      \* entries in the dictionary file
MaxDefs == 2         \* definitions in the dictionary file, over all entries
MaxKanji == 2        \* records in a kanji list

(***************************************************************************)
(* Strings.                                                                *)
(***************************************************************************)
Space == 32
Comma == 44

IsSpace(c) == c = Space

RECURSIVE LStrip(_)
LStrip(s) == IF s # <<>> /\ IsSpace(Head(s)) THEN LStrip(Tail(s)) ELSE s

RECURSIVE RStrip(_)
RStrip(s) ==
    IF s # <<>> /\ IsSpace(s[Len(s)]) THEN RStrip(SubSeq(s, 1, Len(s) - 1)) ELSE s

\* str.strip()
Strip(s) == RStrip(LStrip(s))

\* str.upper(), on the letters a..z
Upper(s) == [n \in DOMAIN s |-> IF s[n] \in 97..122 THEN s[n] - 32 ELSE s[n]]

\* str.lower(), on the letters A..Z
Lower(s) == [n \in DOMAIN s |-> IF s[n] \in 65..90 THEN s[n] + 32 ELSE s[n]]

\* a < b for Python strings: by code point, a proper prefix first
RECURSIVE StrLess(_, _)
StrLess(a, b) ==
    IF b = <<>> THEN FALSE
    ELSE IF a = <<>> THEN TRUE
    ELSE IF Head(a) # Head(b) THEN Head(a) < Head(b)
    ELSE StrLess(Tail(a), Tail(b))

\* sorted(S) of a collection of distinct strings
RECURSIVE Sorted(_)
Sorted(S) ==
    IF S = {} THEN <<>>
    ELSE LET m == CHOOSE x \in S : \A y \in S \ {x} : StrLess(x, y)
         IN  <<m>> \o Sorted(S \ {m})

\* sep.join(q)
RECURSIVE Join(_, _)
Join(sep, q) ==
    IF q = <<>> THEN <<>>
    ELSE IF Len(q) = 1 THEN q[1]
    ELSE q[1] \o sep \o Join(sep, Tail(q))

CommaSpace == <<Comma, Space>>

(***************************************************************************)
(* JSON values.                                                            *)
(***************************************************************************)
Str(s) == [t |-> "str", s |-> s]
Null == [t |-> "null", s |-> <<>>]          \* JSON null, Python None
Num == [t |-> "num", s |-> <<>>]            \* a non-zero JSON number
Absent == [t |-> "absent", s |-> <<>>]      \* the key is missing

\* Python truthiness of a value
Truthy(v) == \/ v.t = "num"
             \/ v.t = "str" /\ v.s # <<>>

\* dict.get(key): None when the key is missing
Get(v) == IF v.t = "absent" THEN Null ELSE v

(***************************************************************************)
(* The inputs: what the two input files may hold.                          *)
(***************************************************************************)
Mizu == <<27700>>     \* the character U+6C34
Hi == <<28779>>       \* the character U+706B

DictChars == {Mizu, Hi}

\* definition[0]: "", " ", "a", " a", "B", and a number
RawReadings == { Str(<<>>), Str(<<Space>>), Str(<<97>>), Str(<<Space, 97>>),
                 Str(<<66>>), Num }

\* A definition is a JSON list (isList) of values, or some other JSON value.
Definitions ==
    { [isList |-> TRUE, items |-> <<r>>] : r \in RawReadings }
    \cup { [isList |-> TRUE, items |-> <<>>], [isList |-> FALSE, items |-> <<>>] }

\* An entry is a JSON list: [], [character] or [character, definitions]. These
\* are the entries with n definitions.
EntriesWith(n) ==
    (IF n = 0 THEN { <<>>, <<Str(Mizu)>> } ELSE {})
    \cup { <<Str(c), defs>> : c \in DictChars, defs \in [1..n -> Definitions] }

RECURSIVE Sum(_)
Sum(q) == IF q = <<>> THEN 0 ELSE Head(q) + Sum(Tail(q))

\* The numbers of definitions of the entries of a file: at most m entries that
\* hold at most n definitions in all.
Shapes(m, n) == { q \in UNION { [1..l -> 0..n] : l \in 0..m } : Sum(q) <= n }

\* The files whose entries hold these numbers of definitions.
RECURSIVE FilesOf(_)
FilesOf(shape) ==
    IF shape = <<>> THEN { <<>> }
    ELSE { <<e>> \o f : e \in EntriesWith(Head(shape)), f \in FilesOf(Tail(shape)) }

EmptyDict == [c \in {} |-> {}]

RecordChars == { Absent, Str(<<>>), Str(Mizu), Str(Hi) }

\* meaning: missing, null, "", " ", " w", and a number
Meanings == { Absent, Null, Str(<<>>), Str(<<Space>>), Str(<<Space, 119>>), Num }

Jlptn(n) == <<106, 108, 112, 116, 110, 48 + n>>     \* "jlptn<n>"

KanjiRecords ==
    { [character |-> c, meaning |-> m, category |-> Str(Jlptn(5))] :
        c \in RecordChars, m \in Meanings }

\* A file: t = "dict" a JSON object with the keys kanji and version, "list" a
\* JSON array, "unreadable" a file that is missing or is not JSON, "partial" the
\* start of a JSON text, "none" no content at all.
File(t, kanji, version) == [t |-> t, kanji |-> kanji, version |-> version]
NoFile == File("none", Absent, Absent)
Partial == File("partial", Absent, Absent)      \* what a failed dump left behind
Unreadable == File("unreadable", Absent, Absent)
List(q) == [t |-> "list", s |-> q]
Version == Str(<<49>>)

\* The kanji files that are not an object with a list under "kanji".
OddKanjiFiles ==
    { File("dict", Absent, Version), File("dict", Null, Version),
      File("list", Absent, Absent), Unreadable }

(***************************************************************************)
(* load_dictionary                                                         *)
(***************************************************************************)
\* lines 37-44: the definition contributes a reading
HasReading(definition) ==
    /\ definition.isList
    /\ Len(definition.items) > 0
    /\ Truthy(definition.items[1])

\* line 44 raises AttributeError: a truthy raw_reading that has no strip()
RaisesInEntry(entry) ==
    /\ Len(entry) >= 2
    /\ \E d \in DOMAIN entry[2] :
          HasReading(entry[2][d]) /\ entry[2][d].items[1].t # "str"

\* lines 34-47: unique_readings of the entry's definitions
UniqueReadings(definitions) ==
    { Strip(definitions[d].items[1].s) :
        d \in { e \in DOMAIN definitions : HasReading(definitions[e]) } }

\* a loader that adds the readings to those the character already has
StoreReadingsMerged(dictionary, c, unique_readings) ==
    IF unique_readings # {}
    THEN [x \in DOMAIN dictionary \cup {c} |->
             IF x = c
             THEN unique_readings
                  \cup (IF c \in DOMAIN dictionary THEN dictionary[c] ELSE {})
             ELSE dictionary[x]]
    ELSE dictionary

\* lines 48-49: dictionary[character] = list(unique_readings)
StoreReadings(dictionary, c, unique_readings) ==
    IF unique_readings # {}
    THEN [x \in DOMAIN dictionary \cup {c} |->
             IF x = c THEN unique_readings ELSE dictionary[x]]
    ELSE dictionary

\* lines 24-49: the body of the loop over the entries
LoadedEntry(dictionary, entry) ==
    IF Len(entry) < 2 THEN dictionary
    ELSE StoreReadings(dictionary, entry[1].s, UniqueReadings(entry[2]))

Exit(status, messages) ==
    /\ pc' = "exited"
    /\ exit_status' = status
    /\ console' = console \o messages

\* lines 15-20 and the handlers of lines 54-60 for the file itself
OpenDictionary ==
    /\ pc = "start"
    /\ \/ /\ Exit(1, <<"loading", "fatal_dictionary_not_found">>)
          /\ UNCHANGED << yomichan_data, entry_idx, hvd_dictionary >>
       \/ /\ Exit(1, <<"loading", "fatal_dictionary_error">>)
          /\ UNCHANGED << yomichan_data, entry_idx, hvd_dictionary >>
       \/ \E shape \in Shapes(MaxEntries, MaxDefs) : \E f \in FilesOf(shape) :
             /\ yomichan_data' = f
             /\ entry_idx' = 1
             /\ hvd_dictionary' = EmptyDict
             /\ pc' = "loading"
             /\ console' = console \o <<"loading">>
             /\ UNCHANGED exit_status
    /\ UNCHANGED << input_file, data, kanji_list, i, character, sv_meaning,
                    modified_count, skipped_count, output_file, first_input >>
    /\ UNCHANGED splitter_vars

\* lines 23-49, one iteration; an exception goes to the handler of lines 58-60
LoadEntry ==
    /\ pc = "loading"
    /\ entry_idx <= Len(yomichan_data)
    /\ LET entry == yomichan_data[entry_idx] IN
         IF RaisesInEntry(entry)
         THEN /\ Exit(1, <<"fatal_dictionary_error">>)
              /\ UNCHANGED << entry_idx, hvd_dictionary >>
         ELSE /\ hvd_dictionary' = LoadedEntry(hvd_dictionary, entry)
              /\ entry_idx' = entry_idx + 1
              /\ UNCHANGED << pc, exit_status, console >>
    /\ UNCHANGED << yomichan_data, input_file, data, kanji_list, i, character,
                    sv_meaning, modified_count, skipped_count, output_file,
                    first_input >>
    /\ UNCHANGED splitter_vars

\* lines 51-52 and 76-79: the loop is over, the map is returned
ReturnDictionary ==
    /\ pc = "loading"
    /\ entry_idx > Len(yomichan_data)
    /\ pc' = "loaded"
    /\ yomichan_data' = <<>>
    /\ entry_idx' = 0
    /\ console' = console \o <<"loaded", "reading_input">>
    /\ UNCHANGED << exit_status, hvd_dictionary, input_file, data, kanji_list, i,
                    character, sv_meaning, modified_count, skipped_count,
                    output_file, first_input >>
    /\ UNCHANGED splitter_vars

(***************************************************************************)
(* get_han_viet_reading                                                    *)
(***************************************************************************)
UpperEach(q) == [n \in DOMAIN q |-> Upper(q[n])]

\* a lookup that forgets the upper()
get_han_viet_reading_as_stored(ch, dictionary) ==
    LET readings == IF ch.t = "str" /\ ch.s \in DOMAIN dictionary
                    THEN dictionary[ch.s] ELSE {}
    IN  IF readings # {}
        THEN Str(Join(CommaSpace, Sorted(readings)))
        ELSE Null

\* lines 65-71; the result is a string, or Null for None
get_han_viet_reading(ch, dictionary) ==
    LET readings == IF ch.t = "str" /\ ch.s \in DOMAIN dictionary
                    THEN dictionary[ch.s] ELSE {}
    IN  IF readings # {}
        THEN Str(Join(CommaSpace, UpperEach(Sorted(readings))))
        ELSE Null

(***************************************************************************)
(* process_kanji_file                                                      *)
(***************************************************************************)
\* a merge that appends the trimmed meaning
NewMeaningTrimmed(sv, current_meaning) ==
    IF Strip(current_meaning.s) # <<>>
    THEN Str(sv.s \o CommaSpace \o Strip(current_meaning.s))
    ELSE sv

\* a merge that leaves alone a meaning that already starts with the reading
NewMeaningOnce(sv, current_meaning) ==
    IF Len(current_meaning.s) >= Len(sv.s)
       /\ SubSeq(current_meaning.s, 1, Len(sv.s)) = sv.s
    THEN current_meaning
    ELSE IF Strip(current_meaning.s) # <<>>
    THEN Str(sv.s \o CommaSpace \o current_meaning.s)
    ELSE sv

\* lines 122-125
NewMeaning(sv, current_meaning) ==
    IF Strip(current_meaning.s) # <<>>
    THEN Str(sv.s \o CommaSpace \o current_meaning.s)
    ELSE sv

\* a test that forgets "is not None"
EligibleByCharacter(rec) == Truthy(Get(rec.character))

\* line 106
Eligible(rec) == Truthy(Get(rec.character)) /\ Get(rec.meaning).t # "null"

\* line 112
Lookup(rec) == get_han_viet_reading(Get(rec.character), hvd_dictionary)

\* line 122 raises AttributeError: a meaning that has no strip()
RaisesInRecord(rec) ==
    Eligible(rec) /\ Truthy(Lookup(rec)) /\ Get(rec.meaning).t # "str"

\* a rewrite that builds a new record of character and meaning only
RewrittenAnew(rec) ==
    [rec EXCEPT !.meaning = NewMeaning(Lookup(rec), Get(rec.meaning)),
                !.category = Absent]

\* line 127
Rewritten(rec) ==
    [rec EXCEPT !.meaning = NewMeaning(Lookup(rec), Get(rec.meaning))]

\* a handler without the return of line 87: line 89 reads the unbound data
AfterInputFailureFallsThrough == "raised"

\* lines 85-87: the handler returns
AfterInputFailure == "returned"

\* lines 82-99 on a file that holds f: read it, take the kanji list, reset the
\* counters; printed is the console before line 82
ReadAs(f, printed) ==
    /\ input_file' = f
    /\ IF f.t = "unreadable"
       THEN \* lines 85-87
            /\ pc' = AfterInputFailure
            /\ console' = printed \o <<"fatal_input">>
            /\ UNCHANGED << data, kanji_list, i, modified_count, skipped_count >>
       ELSE IF f.t # "dict" \/ f.kanji.t = "null"
       THEN \* line 89 or 90 raises: a list has no get(), None has no len()
            /\ pc' = "raised"
            /\ data' = f
            /\ console' = printed
            /\ UNCHANGED << kanji_list, i, modified_count, skipped_count >>
       ELSE /\ pc' = "loop"
            /\ data' = f
            /\ kanji_list' = (IF f.kanji.t = "absent" THEN <<>> ELSE f.kanji.s)
            /\ i' = 1
            /\ modified_count' = 0
            /\ skipped_count' = 0
            /\ console' = printed \o <<"found">>
    /\ UNCHANGED << exit_status, yomichan_data, entry_idx, hvd_dictionary,
                    character, sv_meaning, output_file >>
    /\ UNCHANGED splitter_vars

ReadKanjiFile ==
    /\ pc = "loaded"
    /\ \/ \E n \in 0..MaxKanji : \E q \in [1..n -> KanjiRecords] :
             ReadAs(File("dict", List(q), Version), console)
       \/ \E f \in OddKanjiFiles : ReadAs(f, console)
    /\ UNCHANGED first_input

\* lines 102-133, one iteration
ProcessEntry ==
    /\ pc = "loop"
    /\ i <= Len(kanji_list)
    /\ LET kanji_entry == kanji_list[i] IN
         /\ character' = Get(kanji_entry.character)
         /\ IF ~ Eligible(kanji_entry)
            THEN /\ i' = i + 1
                 /\ UNCHANGED << pc, console, sv_meaning, kanji_list, data,
                                 modified_count, skipped_count >>
            ELSE /\ sv_meaning' = Lookup(kanji_entry)
                 /\ IF ~ Truthy(Lookup(kanji_entry))
                    THEN /\ skipped_count' = skipped_count + 1
                         /\ i' = i + 1
                         /\ console' = console \o <<"processing">>
                         /\ UNCHANGED << pc, kanji_list, data, modified_count >>
                    ELSE IF RaisesInRecord(kanji_entry)
                    THEN /\ pc' = "raised"
                         /\ console' = console \o <<"processing", "processed">>
                         /\ UNCHANGED << i, kanji_list, data, modified_count,
                                         skipped_count >>
                    ELSE /\ kanji_list' = [kanji_list EXCEPT ![i] = Rewritten(kanji_entry)]
                         \* kanji_list is data['kanji'] itself when the key is there
                         /\ data' = (IF data.kanji.t = "list"
                                     THEN [data EXCEPT !.kanji = List(kanji_list')]
                                     ELSE data)
                         /\ modified_count' = modified_count + 1
                         /\ i' = i + 1
                         /\ console' = console \o <<"processing", "processed">>
                         /\ UNCHANGED << pc, skipped_count >>
    /\ UNCHANGED << exit_status, yomichan_data, entry_idx, hvd_dictionary,
                    input_file, output_file, first_input >>
    /\ UNCHANGED splitter_vars

\* lines 136-148: data['kanji'] = kanji_list, then the dump; when open() fails
\* the file is as before, when the dump fails part of the text is in the file
WriteOutput ==
    /\ pc = "loop"
    /\ i > Len(kanji_list)
    /\ data' = [data EXCEPT !.kanji = List(kanji_list)]
    /\ \/ /\ output_file' = data'
          /\ console' = console \o <<"complete">>
       \/ /\ output_file' \in {output_file, Partial}
          /\ console' = console \o <<"fatal_write">>
    /\ pc' = "returned"
    /\ UNCHANGED << exit_status, yomichan_data, entry_idx, hvd_dictionary,
                    input_file, kanji_list, i, character, sv_meaning,
                    modified_count, skipped_count, first_input >>
    /\ UNCHANGED splitter_vars

\* A second run on the first run's output: OUTPUT_FILE is copied over
\* KANJI_INPUT_FILE and the script is started again. The dictionary file is the
\* same, so load_dictionary returns the same map; this is the second run up to
\* line 99.
Rerun ==
    /\ pc = "returned"
    /\ output_file.t = "dict"
    /\ first_input = NoFile
    /\ first_input' = input_file
    /\ ReadAs(output_file, <<"loading", "loaded", "reading_input">>)

InitEnricher ==
    /\ pc = "start"
    /\ exit_status = 0
    /\ console = <<>>
    /\ yomichan_data = <<>>
    /\ entry_idx = 0
    /\ hvd_dictionary = EmptyDict
    /\ input_file = NoFile
    /\ data = NoFile
    /\ kanji_list = <<>>
    /\ i = 0
    /\ character = Null
    /\ sv_meaning = Null
    /\ modified_count = 0
    /\ skipped_count = 0
    /\ output_file = NoFile
    /\ first_input = NoFile

(***************************************************************************)
(* split_kanji_by_jlpt_level                                               *)
(***************************************************************************)
JlptKeys == { Jlptn(n) : n \in 1..5 }          \* lines 31-37

\* lines 45-51: the files are written in the order of the dictionary's keys
WriteOrder == << Jlptn(5), Jlptn(4), Jlptn(3), Jlptn(2), Jlptn(1) >>

\* category: missing, "", "JLPTN5", "jlptn5", "Jlptn4", "jlptn3", "jlptn2",
\* "jlptn1", "unknown"
Categories ==
    { Absent, Str(<<>>), Str(<<74, 76, 80, 84, 78, 53>>), Str(Jlptn(5)),
      Str(<<74, 108, 112, 116, 110, 52>>), Str(Jlptn(3)), Str(Jlptn(2)),
      Str(Jlptn(1)), Str(<<117, 110, 107, 110, 111, 119, 110>>) }

SplitRecords ==
    { [character |-> Str(c), meaning |-> Str(<<119>>), category |-> g] :
        c \in DictChars, g \in Categories }

NotFound == File("not_found", Absent, Absent)

OddSplitFiles == { File("dict", Absent, Version), NotFound, Unreadable }

\* a grouping that forgets the lower()
CategoryOfAsWritten(kanji) ==
    IF kanji.category.t = "absent" THEN <<>> ELSE kanji.category.s

\* line 40: kanji.get('category', '').lower()
CategoryOf(kanji) ==
    Lower(IF kanji.category.t = "absent" THEN <<>> ELSE kanji.category.s)

NoGroups == [key \in JlptKeys |-> <<>>]
NoFiles == [key \in JlptKeys |-> NoFile]

\* lines 10-37 on a file that holds f
SplitAs(f) ==
    LET list == IF f.t = "dict" /\ f.kanji.t = "list" THEN f.kanji.s ELSE <<>> IN
    /\ split_data' = f
    /\ IF f.t = "not_found"
       THEN /\ split_console' = split_console \o <<"reading", "error_not_found">>
            /\ split_pc' = "returned"
            /\ UNCHANGED << jlpt_groups, k >>
       ELSE IF f.t = "unreadable"
       THEN /\ split_console' = split_console \o <<"reading", "error_decode">>
            /\ split_pc' = "returned"
            /\ UNCHANGED << jlpt_groups, k >>
       ELSE IF list = <<>>
       THEN /\ split_console' = split_console \o <<"reading", "warning_empty">>
            /\ split_pc' = "returned"
            /\ UNCHANGED << jlpt_groups, k >>
       ELSE /\ split_console' = split_console \o <<"reading">>
            /\ split_pc' = "grouping"
            /\ jlpt_groups' = NoGroups
            /\ k' = 1
    /\ UNCHANGED << w, split_files >>
    /\ UNCHANGED enricher_vars

ReadSplitInput ==
    /\ split_pc = "start"
    /\ \/ \E n \in 0..MaxKanji : \E q \in [1..n -> SplitRecords] :
             SplitAs(File("dict", List(q), Version))
       \/ \E f \in OddSplitFiles : SplitAs(f)

\* lines 41-42
Grouped(groups, kanji) ==
    IF CategoryOf(kanji) \in DOMAIN groups
    THEN [groups EXCEPT ![CategoryOf(kanji)] = Append(@, kanji)]
    ELSE groups

\* lines 39-42, one iteration
GroupKanji ==
    /\ split_pc = "grouping"
    /\ k <= Len(split_data.kanji.s)
    /\ jlpt_groups' = Grouped(jlpt_groups, split_data.kanji.s[k])
    /\ k' = k + 1
    /\ UNCHANGED << split_pc, split_data, w, split_files, split_console >>
    /\ UNCHANGED enricher_vars

\* lines 45-53
StartWriting ==
    /\ split_pc = "grouping"
    /\ k > Len(split_data.kanji.s)
    /\ split_pc' = "writing"
    /\ w' = 1
    /\ split_console' = split_console \o <<"starting">>
    /\ UNCHANGED << split_data, jlpt_groups, k, split_files >>
    /\ UNCHANGED enricher_vars

\* lines 54-64, one iteration: the dump succeeds, or fails and is reported; when
\* open() fails the file is as before, when the dump fails it holds part of the text
WriteGroup ==
    /\ split_pc = "writing"
    /\ w <= Len(WriteOrder)
    /\ LET category_key == WriteOrder[w] IN
         \/ /\ split_files' = [split_files EXCEPT ![category_key] =
                                  File("dict", List(jlpt_groups[category_key]), Absent)]
            /\ split_console' = split_console \o <<"created">>
         \/ /\ \E left \in {split_files[category_key], Partial} :
                  split_files' = [split_files EXCEPT ![category_key] = left]
            /\ split_console' = split_console \o <<"error_writing">>
    /\ w' = w + 1
    /\ UNCHANGED << split_pc, split_data, jlpt_groups, k >>
    /\ UNCHANGED enricher_vars

\* line 66
FinishSplit ==
    /\ split_pc = "writing"
    /\ w > Len(WriteOrder)
    /\ split_pc' = "returned"
    /\ split_console' = split_console \o <<"complete">>
    /\ UNCHANGED << split_data, jlpt_groups, k, w, split_files >>
    /\ UNCHANGED enricher_vars

InitSplitter ==
    /\ split_pc = "start"
    /\ split_data = NoFile
    /\ jlpt_groups = NoGroups
    /\ k = 0
    /\ w = 0
    /\ split_files = NoFiles
    /\ split_console = <<>>

(***************************************************************************)
(* Specifications.                                                         *)
(***************************************************************************)
Init == InitEnricher /\ InitSplitter

\* one run of auto-sv-lookup.py
Next ==
    \/ OpenDictionary
    \/ LoadEntry
    \/ ReturnDictionary
    \/ ReadKanjiFile
    \/ ProcessEntry
    \/ WriteOutput

Spec == Init /\ [][Next]_vars

\* auto-sv-lookup.py run once, and once more on its own output
NextTwice == Next \/ Rerun

SpecTwice == Init /\ [][NextTwice]_vars

\* one run of split-kanji.py
NextSplit ==
    \/ ReadSplitInput
    \/ GroupKanji
    \/ StartWriting
    \/ WriteGroup
    \/ FinishSplit

SpecSplit == Init /\ [][NextSplit]_vars

(***************************************************************************)
(* Vocabulary of the properties, stated without the operators of the model *)
(* that they are about.                                                    *)
(***************************************************************************)
\* the record has a truthy character and a meaning that is there and not null
HasCharacterAndMeaning(rec) ==
    /\ rec.character.t = "str" /\ rec.character.s # <<>>
    /\ rec.meaning.t \notin {"absent", "null"}

\* the string has a character that is not whitespace
NonBlank(str) == \E n \in DOMAIN str : str[n] # Space

\* the lookup of the record's character succeeds; Reading is what it gives
Hit(rec) == Truthy(get_han_viet_reading(Get(rec.character), hvd_dictionary))
Reading(rec) == get_han_viet_reading(Get(rec.character), hvd_dictionary).s

\* the records of the input that the loop has dealt with
Processed ==
    IF pc \in {"loop", "raised", "returned"} /\ input_file.t = "dict"
       /\ input_file.kanji.t = "list"
    THEN 1..(i - 1) ELSE {}

InputRecord(n) == input_file.kanji.s[n]

Printed(message) == \E n \in DOMAIN console : console[n] = message

(***************************************************************************)
(* C1: every processed record that has a truthy character, a string        *)
(* meaning and a dictionary hit carries the formatted reading, ", " and    *)
(* the original untrimmed meaning when that meaning has a non-whitespace   *)
(* character, and the formatted reading alone when it is empty or blank.   *)
(***************************************************************************)
C1_RewrittenMeaning ==
    \A n \in Processed :
        LET rec == InputRecord(n) IN
        (HasCharacterAndMeaning(rec) /\ rec.meaning.t = "str" /\ Hit(rec)) =>
            kanji_list[n].meaning =
                IF NonBlank(rec.meaning.s)
                THEN Str(Reading(rec) \o <<Comma, Space>> \o rec.meaning.s)
                ELSE Str(Reading(rec))

\* a run has rewritten a meaning with leading whitespace and a blank one
C1_Witness ==
    /\ pc = "returned"
    /\ \E n \in Processed :
          Hit(InputRecord(n)) /\ InputRecord(n).meaning = Str(<<Space, 119>>)
    /\ \E n \in Processed :
          Hit(InputRecord(n)) /\ InputRecord(n).meaning = Str(<<Space>>)

SameButMeaning(a, b) == [a EXCEPT !.meaning = Null] = [b EXCEPT !.meaning = Null]

KanjiPassedThrough ==
    /\ Len(output_file.kanji.s) = Len(input_file.kanji.s)
    /\ \A n \in DOMAIN input_file.kanji.s :
          LET rec == InputRecord(n) IN
          /\ SameButMeaning(output_file.kanji.s[n], rec)
          /\ (~ HasCharacterAndMeaning(rec) \/ ~ Hit(rec)) =>
                output_file.kanji.s[n] = rec

(***************************************************************************)
(* C2 as claimed: the written output equals the input except for           *)
(* kanji[*].meaning: no top-level key is added, removed or changed, the    *)
(* kanji array has the same records in the same order, each unchanged but  *)
(* for its meaning, and a record without a hit, without a truthy character *)
(* or without a meaning is unchanged entirely.                             *)
(***************************************************************************)
C2_OnlyMeaningsChange ==
    output_file.t = "dict" =>
        /\ output_file.version = input_file.version
        /\ output_file.kanji.t = input_file.kanji.t
        /\ input_file.kanji.t = "list" => KanjiPassedThrough

(***************************************************************************)
(* C2 as amended: the same, except that an input without the key "kanji"   *)
(* is written with "kanji": [] added (line 137).                           *)
(***************************************************************************)
C2_OnlyMeaningsChangeOrKanjiAdded ==
    output_file.t = "dict" =>
        /\ output_file.version = input_file.version
        /\ output_file.kanji.t = "list"
        /\ input_file.kanji.t = "list" => KanjiPassedThrough
        /\ input_file.kanji.t # "list" =>
              input_file.kanji.t = "absent" /\ output_file.kanji.s = <<>>

\* an output with one rewritten and one untouched record has been written
C2_Witness ==
    /\ output_file.t = "dict"
    /\ input_file.kanji.t = "list"
    /\ \E n \in DOMAIN input_file.kanji.s : output_file.kanji.s[n] # InputRecord(n)
    /\ \E n \in DOMAIN input_file.kanji.s : output_file.kanji.s[n] = InputRecord(n)

(***************************************************************************)
(* C3: at every point of the record loop, modified_count is the number of  *)
(* processed records with character and meaning whose lookup succeeded     *)
(* (these are the rewritten records), skipped_count the number of those    *)
(* whose lookup failed, records without character or meaning count in      *)
(* neither, and the sum never exceeds the number of records of the input   *)
(* that have character and meaning.                                        *)
(***************************************************************************)
C3_Counters ==
    (pc \in {"loop", "raised", "returned"} /\ input_file.t = "dict"
        /\ input_file.kanji.t # "null") =>
        LET counted == { n \in Processed : HasCharacterAndMeaning(InputRecord(n)) }
            all == IF input_file.kanji.t = "list"
                   THEN { n \in DOMAIN input_file.kanji.s :
                             HasCharacterAndMeaning(InputRecord(n)) }
                   ELSE {}
        IN  /\ modified_count = Cardinality({ n \in counted : Hit(InputRecord(n)) })
            /\ skipped_count = Cardinality({ n \in counted : ~ Hit(InputRecord(n)) })
            /\ modified_count =
                  Cardinality({ n \in Processed : kanji_list[n] # InputRecord(n) })
            /\ modified_count + skipped_count <= Cardinality(all)

\* the loop has counted one record as modified and the other as skipped
C3_Witness ==
    /\ pc = "loop"
    /\ modified_count = 1
    /\ skipped_count = 1

\* the orders in which the readings of S can be listed
Listings(S) ==
    { q \in [1..Cardinality(S) -> S] : \A a, b \in DOMAIN q : a # b => q[a] # q[b] }

Ascending(q) == \A a, b \in DOMAIN q : a < b => ~ StrLess(q[b], q[a])

Joined(q) == Join(<<Comma, Space>>, q)

\* the loop is about to look the character of its next record up
LooksUp ==
    /\ pc = "loop"
    /\ i <= Len(kanji_list)
    /\ HasCharacterAndMeaning(kanji_list[i])

LookedUp == kanji_list[i].character.s

(***************************************************************************)
(* C4 as claimed: the lookup of a record's character gives, when the       *)
(* character is in the map, its readings upper-cased, in ascending order   *)
(* of their upper-cased form, joined with ", "; and None when it is not.   *)
(***************************************************************************)
C4_SortedByUpperCasedForm ==
    [][ LooksUp =>
          IF LookedUp \in DOMAIN hvd_dictionary
          THEN \E q \in Listings(hvd_dictionary[LookedUp]) :
                  /\ Ascending(UpperEach(q))
                  /\ sv_meaning' = Str(Joined(UpperEach(q)))
          ELSE sv_meaning' = Null ]_vars

(***************************************************************************)
(* C4 as amended: the readings are listed in ascending order of their      *)
(* stored form, as written before the upper-casing, and each upper-cased.  *)
(***************************************************************************)
C4_SortedByStoredForm ==
    [][ LooksUp =>
          IF LookedUp \in DOMAIN hvd_dictionary
          THEN \E q \in Listings(hvd_dictionary[LookedUp]) :
                  /\ Ascending(q)
                  /\ sv_meaning' = Str(Joined(UpperEach(q)))
          ELSE sv_meaning' = Null ]_vars

\* a lookup gave "B, A" for the readings "a" and "B"
C4_Witness ==
    /\ pc = "loop"
    /\ character.t = "str" /\ character.s \in DOMAIN hvd_dictionary
    /\ hvd_dictionary[character.s] = { <<97>>, <<66>> }
    /\ sv_meaning = Str(<<66, Comma, Space, 65>>)

\* the entries that the loop of load_dictionary has dealt with
Loaded == IF pc = "loading" THEN 1..(entry_idx - 1) ELSE {}

(***************************************************************************)
(* C5: in the map that load_dictionary builds, every reading is trimmed    *)
(* and non-empty, no character maps to an empty collection, and every      *)
(* character of the map comes from an entry of length 2 or more.           *)
(***************************************************************************)
C5_ReadingMapInvariant ==
    /\ \A c \in DOMAIN hvd_dictionary :
          /\ hvd_dictionary[c] # {}
          /\ \A r \in hvd_dictionary[c] :
                /\ r # <<>>
                /\ r[1] # Space
                /\ r[Len(r)] # Space
    /\ pc = "loading" =>
          \A c \in DOMAIN hvd_dictionary :
             \E n \in Loaded : Len(yomichan_data[n]) >= 2 /\ yomichan_data[n][1].s = c

(***************************************************************************)
(* C6: a failure to load the dictionary ends the process with a non-zero   *)
(* status, and no other failure lets an exception out of                   *)
(* process_kanji_file: it is reported and the function returns.            *)
(***************************************************************************)
C6_NoExceptionPropagates ==
    /\ pc = "exited" => exit_status # 0
    /\ (Printed("fatal_dictionary_not_found") \/ Printed("fatal_dictionary_error")) =>
          pc = "exited"
    /\ pc # "raised"

(***************************************************************************)
(* C7: when the kanji input cannot be read or parsed, the run returns      *)
(* normally with no record processed and no output written; and an output  *)
(* is written only after the dictionary was loaded and the input read.     *)
(***************************************************************************)
C7_InputFailureWritesNothing ==
    /\ input_file.t = "unreadable" =>
          /\ pc = "returned"
          /\ exit_status = 0
          /\ output_file = NoFile
          /\ ~ Printed("complete")
          /\ kanji_list = <<>> /\ i = 0
          /\ modified_count = 0 /\ skipped_count = 0
          /\ ~ Printed("processing")
          /\ Printed("fatal_input")
    /\ output_file # NoFile =>
          /\ Printed("loaded")
          /\ input_file.t = "dict"
          /\ exit_status = 0

\* the dictionary was loaded and the read of the input failed
C7_Witness ==
    /\ input_file.t = "unreadable"
    /\ DOMAIN hvd_dictionary # {}
    /\ pc = "returned"

\* the loaded entries of length 2 or more that name the character
EntriesOf(c) ==
    { n \in Loaded : Len(yomichan_data[n]) >= 2 /\ yomichan_data[n][1].s = c }

Last(S) == CHOOSE n \in S : \A m \in S : m <= n

ReadingsOf(n) == UniqueReadings(yomichan_data[n][2])

Valid(readings) == readings \ { <<>> }

ValidInMap(c) ==
    IF c \in DOMAIN hvd_dictionary THEN Valid(hvd_dictionary[c]) ELSE {}

(***************************************************************************)
(* C10 as claimed: for every character, the map reflects only the last     *)
(* entry of the file that names it, also when that entry yields no valid   *)
(* reading; readings of two entries are never merged. (Only the readings   *)
(* that are non-empty are compared, so that the empty readings of C5 do    *)
(* not decide this property.)                                              *)
(***************************************************************************)
C10_LastEntryWins ==
    pc = "loading" =>
        \A c \in DictChars :
            ValidInMap(c) = IF EntriesOf(c) = {} THEN {}
                            ELSE Valid(ReadingsOf(Last(EntriesOf(c))))

(***************************************************************************)
(* C10 as amended: the map reflects only the last entry that names the     *)
(* character and from which the loader collected at least one reading; a   *)
(* later entry from which it collected none leaves the earlier readings in *)
(* place; readings of two entries are never merged.                        *)
(***************************************************************************)
C10_LastEntryWithReadingsWins ==
    pc = "loading" =>
        \A c \in DictChars :
            LET S == { n \in EntriesOf(c) : ReadingsOf(n) # {} } IN
            IF S = {}
            THEN c \notin DOMAIN hvd_dictionary
            ELSE c \in DOMAIN hvd_dictionary
                 /\ hvd_dictionary[c] = ReadingsOf(Last(S))

\* two entries for one character, each with its own reading, are loaded
C10_Witness ==
    /\ pc = "loading"
    /\ \E c \in DictChars : \E m, n \in EntriesOf(c) :
          /\ m < n
          /\ Valid(ReadingsOf(m)) # {} /\ Valid(ReadingsOf(n)) # {}
          /\ ReadingsOf(m) \cap ReadingsOf(n) = {}

\* the second run has written its output; its input is the first run's output
SecondRunWritten ==
    /\ first_input # NoFile
    /\ pc = "returned"
    /\ console[Len(console)] = "complete"

\* the records of the first input that the first run rewrote
HitRecords ==
    IF first_input.t = "dict" /\ first_input.kanji.t = "list"
    THEN { n \in DOMAIN first_input.kanji.s :
              /\ HasCharacterAndMeaning(first_input.kanji.s[n])
              /\ Hit(first_input.kanji.s[n]) }
    ELSE {}

Twice(R, original) == R \o <<Comma, Space>> \o R \o <<Comma, Space>> \o original

(***************************************************************************)
(* C8 as claimed: a second run on the first run's output gives, for every  *)
(* record with a dictionary hit, "R, R, original" when the original        *)
(* meaning was non-empty and "R, R" when it was empty, and so an output    *)
(* that differs from the first run's.                                      *)
(***************************************************************************)
C8_DoubledPrefix ==
    SecondRunWritten =>
        \A n \in HitRecords :
            LET rec == first_input.kanji.s[n] IN
            /\ output_file.kanji.s[n].meaning =
                  IF rec.meaning.s # <<>>
                  THEN Str(Twice(Reading(rec), rec.meaning.s))
                  ELSE Str(Reading(rec) \o <<Comma, Space>> \o Reading(rec))
            /\ output_file.kanji.s[n] # input_file.kanji.s[n]

(***************************************************************************)
(* C8 as amended: "R, R, original" when the original meaning has a         *)
(* character that is not whitespace, "R, R" when it is empty or            *)
(* whitespace-only.                                                        *)
(***************************************************************************)
C8_DoubledPrefixUnlessBlank ==
    SecondRunWritten =>
        \A n \in HitRecords :
            LET rec == first_input.kanji.s[n] IN
            /\ output_file.kanji.s[n].meaning =
                  IF NonBlank(rec.meaning.s)
                  THEN Str(Twice(Reading(rec), rec.meaning.s))
                  ELSE Str(Reading(rec) \o <<Comma, Space>> \o Reading(rec))
            /\ output_file.kanji.s[n] # input_file.kanji.s[n]

\* two runs have rewritten a meaning with text and an empty one
C8_Witness ==
    /\ SecondRunWritten
    /\ \E n \in HitRecords : first_input.kanji.s[n].meaning = Str(<<Space, 119>>)
    /\ \E n \in HitRecords : first_input.kanji.s[n].meaning = Str(<<>>)

\* the strings are equal when the case of their letters is ignored
EqualIgnoringCase(a, b) ==
    /\ Len(a) = Len(b)
    /\ \A n \in DOMAIN a :
          \/ a[n] = b[n]
          \/ a[n] \in 65..90 /\ b[n] = a[n] + 32
          \/ b[n] \in 65..90 /\ a[n] = b[n] + 32

Matches(rec, key) == rec.category.t = "str" /\ EqualIgnoringCase(rec.category.s, key)

RECURSIVE Matching(_, _)
Matching(list, key) ==
    IF list = <<>> THEN <<>>
    ELSE (IF Matches(Head(list), key) THEN <<Head(list)>> ELSE <<>>)
         \o Matching(Tail(list), key)

SplitDone ==
    /\ split_pc = "returned"
    /\ split_data.t = "dict" /\ split_data.kanji.t = "list"
    /\ split_data.kanji.s # <<>>

(***************************************************************************)
(* C9 as claimed: after the Splitter has run on a non-empty kanji list,    *)
(* the file of each key holds exactly the records whose category equals    *)
(* the key case-insensitively, in their input order; so each such record   *)
(* is in that file and no other, and a record that matches no key is in    *)
(* none.                                                                   *)
(***************************************************************************)
C9_EveryFileHoldsItsRecords ==
    SplitDone =>
        \A key \in JlptKeys :
            /\ split_files[key].t = "dict"
            /\ split_files[key].kanji.s = Matching(split_data.kanji.s, key)

(***************************************************************************)
(* C9 as amended: the same for every file whose write succeeds; a file     *)
(* whose write fails is reported and holds no document.                    *)
(***************************************************************************)
C9_EveryWrittenFileHoldsItsRecords ==
    /\ \A key \in JlptKeys :
          split_files[key].t = "dict" =>
             split_files[key].kanji.s = Matching(split_data.kanji.s, key)
    /\ SplitDone =>
          \A n \in DOMAIN WriteOrder :
             \/ split_files[WriteOrder[n]].t = "dict" /\ split_console[n + 2] = "created"
             \/ split_files[WriteOrder[n]] \in {NoFile, Partial}
                /\ split_console[n + 2] = "error_writing"

\* "JLPTN5" before "jlptn5", both in the jlptn5 file, and a record in no file
C9_Witness ==
    /\ SplitDone
    /\ \A key \in JlptKeys : split_files[key].t = "dict"
    /\ Len(split_files[Jlptn(5)].kanji.s) = 2
    /\ split_files[Jlptn(5)].kanji.s[1].category # split_files[Jlptn(5)].kanji.s[2].category

====
